---- MODULE Spec2Model ----
(***************************************************************************)
(* A model of the Twitch IRC client of TwitchPlay: the component           *)
(* UTwitchIRCComponent (the facade the game thread calls and ticks) and    *)
(* the runnable FTwitchMessageReceiver (the worker thread that owns the    *)
(* socket), with the three SPSC queues between them, the socket and the    *)
(* server as the environment.                                              *)
(*                                                                         *)
(* An FString is a sequence of atoms.  An atom is either one of the        *)
(* characters the parsers look at (":", " ", "!", "\r", "\n", "\t") or a   *)
(* maximal run of other characters ("PRIVMSG", "tmi.twitch.tv").           *)
(***************************************************************************)
EXTENDS Integers, Sequences, FiniteSets, TLC

VARIABLES
    TwitchMessageReceiver, \* UTwitchIRCComponent: TRUE iff the TUniquePtr is valid
    tickEnabled,           \* UTwitchIRCComponent: PrimaryComponentTick is enabled
    game,                  \* the game thread: "idle", "pull" (inside TickComponent),
                           \* "killing" (inside Kill(true)), "ended" (after EndPlay)
    SendingQueue,          \* FTwitchMessageReceiver: consumer -> worker requests
    ReceivingQueue,        \* FTwitchMessageReceiver: worker -> consumer chat batches
    ConnectionQueue,       \* FTwitchMessageReceiver: worker -> consumer events
    ConnectionSocket,      \* FTwitchMessageReceiver: "null", "open" or "dangling"
    MessagesThread,        \* FTwitchMessageReceiver: TRUE iff the thread was created
    ShouldExit,            \* FTwitchMessageReceiver: the stop-requested flag
    WaitingForAuth,        \* FTwitchMessageReceiver
    Oauth, Username, Channel, \* FTwitchMessageReceiver: the connection parameters
    pc,                    \* where the worker thread is inside Run()
    orphans,               \* threads still inside Run() of a receiver already destroyed
    crashed,               \* the process died of a use of freed memory
    socketState,           \* the socket: "none", "connected", "lost" or "closed"
    pending,               \* bytes the server sent that the worker has not read
    wire,                  \* lines written to the current socket, oldest first
    OnConnectionMessage,   \* events broadcast to the consumer since the last spawn
    OnMessageReceived,     \* <<message, username>> pairs broadcast since the last spawn
    enqueuedEvents,        \* every event the current run put in ConnectionQueue
    pingsRead,             \* ping lines read after the welcome line on this socket
    sinceChat,             \* sleeps since the last PRIVMSG was written (saturating)
    connectsLeft,          \* Connect() calls the game will still make
    requestsLeft,          \* SendChatMessage(), JoinChannel() and GetConnectionInfo()
                           \* calls it will still make
    serverBudget,          \* chunks the server will send on one socket
    connectionInfo,        \* what the last GetConnectionInfo() handed to its caller
    disconnects,           \* Disconnect() calls on this receiver: "none", "once", "again"
    serverSends,           \* chunks the server has sent on the current socket
    bound_events_,         \* UTwitchPlayComponent: the registered commands
    command_encapsulation_char_,  \* UTwitchPlayComponent: delimiter of the command
    options_encapsulation_char_,  \* UTwitchPlayComponent: delimiter of the options
    executed               \* delegate calls made for the messages of the last poll

vars == <<TwitchMessageReceiver, tickEnabled, game, SendingQueue, ReceivingQueue,
          ConnectionQueue, ConnectionSocket, MessagesThread, ShouldExit,
          WaitingForAuth, Oauth, Username, Channel, pc, orphans, crashed,
          socketState, pending, wire, OnConnectionMessage, OnMessageReceived,
          enqueuedEvents, pingsRead, sinceChat, connectsLeft, requestsLeft,
          serverBudget, connectionInfo, disconnects, serverSends, bound_events_,
          command_encapsulation_char_, options_encapsulation_char_, executed>>

receiverVars == <<SendingQueue, ReceivingQueue, ConnectionQueue, ConnectionSocket,
                  MessagesThread, ShouldExit, WaitingForAuth, Oauth, Username,
                  Channel>>
envVars == <<socketState, pending, wire, serverSends>>
observerVars == <<OnConnectionMessage, OnMessageReceived, enqueuedEvents,
                  pingsRead, sinceChat, disconnects, connectionInfo>>
budgetVars == <<connectsLeft, requestsLeft, serverBudget>>
commandVars == <<bound_events_, command_encapsulation_char_, options_encapsulation_char_,
                 executed>>

(***************************************************************************)
(* Bounds of the model.                                                    *)
(***************************************************************************)
MaxConnectCalls == 2
MaxRequests == 2
MaxServerSends == 2
MaxTextLen == 3

\* FTwitchMessageReceiver::TimeBetweenMessages, counted in sleeps of the
\* steady-state loop (0.1 s each).
TimeBetweenMessages == 1

(***************************************************************************)
(* FString operations.                                                     *)
(***************************************************************************)
IsEmpty(s) == s = <<>>

StartsWith(s, p) == Len(s) >= Len(p) /\ SubSeq(s, 1, Len(p)) = p

Contains(s, p) ==
    \E i \in 1..(Len(s) + 1) : i + Len(p) - 1 <= Len(s) /\ SubSeq(s, i, i + Len(p) - 1) = p

LowerAtom(a) == CASE a = "Bot" -> "bot" [] a = "ChA" -> "cha" [] OTHER -> a

ToLower(s) == [i \in 1..Len(s) |-> LowerAtom(s[i])]

\* FString::ParseIntoArray and its variants, which all cull the empty parts.
\* The parts are the maximal runs of s without a delimiter, in their order.
SplitCull(s, delims) ==
    LET starts == {i \in 1..Len(s) : s[i] \notin delims /\ (i = 1 \/ s[i - 1] \in delims)}
        EndOf(i) == CHOOSE j \in i..Len(s) :
                        /\ \A k \in i..j : s[k] \notin delims
                        /\ (j = Len(s) \/ s[j + 1] \in delims)
        Nth(n) == CHOOSE i \in starts : Cardinality({j \in starts : j < i}) = n - 1
    IN  [n \in 1..Cardinality(starts) |-> SubSeq(s, Nth(n), EndOf(Nth(n)))]

ParseIntoArrayLines(s) == SplitCull(s, {"\r", "\n"})
ParseIntoArray(s, delim) == SplitCull(s, {delim})
ParseIntoArrayWS(s) == SplitCull(s, {" ", "\t", "\r", "\n"})

\* FString::Split(delim, &left, nullptr): left is the text before the first
\* delim, and stays empty when there is none.
SplitLeft(s, delim) ==
    IF \E i \in 1..Len(s) : s[i] = delim
    THEN LET i == CHOOSE k \in 1..Len(s) : s[k] = delim /\ \A j \in 1..(k - 1) : s[j] # delim
         IN  SubSeq(s, 1, i - 1)
    ELSE <<>>

\* Joins message_parts[1..] with the ":" the split removed.
RECURSIVE JoinParts(_, _)
JoinParts(parts, k) ==
    IF k > Len(parts) THEN <<>>
    ELSE IF k = Len(parts) THEN parts[k]
    ELSE parts[k] \o <<":">> \o JoinParts(parts, k + 1)

(***************************************************************************)
(* Texts of the protocol and of the events.                                *)
(***************************************************************************)
WelcomePrefix == <<":", "tmi.twitch.tv", " ", "001">>
WelcomeText == <<":", "Welcome,", " ", "GLHF!">>
PingLine == <<"PING", " ", ":", "tmi.twitch.tv">>
PongLine == <<"PONG", " ", ":", "tmi.twitch.tv">>

GracefulText == <<"Diconnected by request gracefully">>
LostText == <<"Lost connection to server">>

Event(type, text) == [type |-> type, text |-> text]

\* The out-parameters of GetConnectionInfo before any call.
NoInfo == [oauth |-> <<>>, username |-> <<>>, channel |-> <<>>]
TerminalTypes == {"FAILED_TO_CONNECT", "FAILED_TO_AUTHENTICATE", "DISCONNECTED"}


\* The test as it would be with StartsWith left out.
IsWelcomeContainsOnly(connectionMessage) ==
    Contains(connectionMessage, WelcomeText)

\* The test of the authentication wait (Run, line 132).
IsWelcome(connectionMessage) ==
    StartsWith(connectionMessage, WelcomePrefix) /\ Contains(connectionMessage, WelcomeText)

(***************************************************************************)
(* FTwitchMessageReceiver::SendIRCMessage: the line it hands to the socket *)
(* and whether it can be sent at all.  FSocket::Send may still fail.       *)
(***************************************************************************)
IRCLine(message, channel) ==
    (IF ~IsEmpty(channel)
     THEN <<"PRIVMSG", " ", "#">> \o channel \o <<" ", ":">> \o message
     ELSE message) \o <<"\n">>

CanSend == ConnectionSocket # "null" /\ socketState = "connected"

SendResults == IF CanSend THEN {TRUE, FALSE} ELSE {FALSE}

Written(w, line, ok) == IF ok THEN Append(w, line) ELSE w

(***************************************************************************)
(* FTwitchMessageReceiver::ParseMessage.  ParseLine classifies one line;   *)
(* ParseMessage runs it over the lines of a chunk and collects the chat    *)
(* messages with their senders, the MESSAGE events and the pings.          *)
(***************************************************************************)
ParseLine(line) ==
    IF line = PingLine THEN [kind |-> "ping"]
    ELSE
    LET message_parts == ParseIntoArray(line, ":")
    IN  IF Len(message_parts) = 0 THEN [kind |-> "event", text |-> line]
        ELSE
        LET meta == ParseIntoArrayWS(message_parts[1])
        IN  IF Len(meta) < 2 THEN [kind |-> "event", text |-> line]
            ELSE
            LET sender_username ==
                    IF meta[2] = <<"PRIVMSG">> THEN SplitLeft(meta[1], "!") ELSE <<>>
            IN  IF IsEmpty(sender_username) THEN [kind |-> "event", text |-> line]
                ELSE IF Len(message_parts) > 1
                     THEN [kind |-> "chat", user |-> sender_username,
                           text |-> JoinParts(message_parts, 2)]
                     ELSE [kind |-> "event", text |-> message_parts[1]]

\* The loop as it would be if it put each sender in front of the earlier ones.
RECURSIVE ParseLinesNewestSenderFirst(_, _)
ParseLinesNewestSenderFirst(lines, acc) ==
    IF lines = <<>> THEN acc
    ELSE LET r == ParseLine(Head(lines))
         IN  ParseLinesNewestSenderFirst(Tail(lines),
                CASE r.kind = "ping" -> [acc EXCEPT !.Pongs = @ + 1]
                  [] r.kind = "chat" -> [acc EXCEPT !.Usernames = <<r.user>> \o @,
                                                    !.Messages = Append(@, r.text)]
                  [] OTHER -> [acc EXCEPT !.Events = Append(@, Event("MESSAGE", r.text))])

RECURSIVE ParseLines(_, _)
ParseLines(lines, acc) ==
    IF lines = <<>> THEN acc
    ELSE LET r == ParseLine(Head(lines))
         IN  ParseLines(Tail(lines),
                CASE r.kind = "ping" -> [acc EXCEPT !.Pongs = @ + 1]
                  [] r.kind = "chat" -> [acc EXCEPT !.Usernames = Append(@, r.user),
                                                    !.Messages = Append(@, r.text)]
                  [] OTHER -> [acc EXCEPT !.Events = Append(@, Event("MESSAGE", r.text))])

\* The parse as it would be if lines that are no chat were only skipped.
ParseMessageDropsOthers(message) ==
    [ParseLines(ParseIntoArrayLines(message),
                [Usernames |-> <<>>, Messages |-> <<>>, Events |-> <<>>, Pongs |-> 0])
         EXCEPT !.Events = <<>>]

ParseMessage(message) ==
    ParseLines(ParseIntoArrayLines(message),
               [Usernames |-> <<>>, Messages |-> <<>>, Events |-> <<>>, Pongs |-> 0])

\* n PONG lines, of which the socket accepts those oks marks.
RECURSIVE WritePongs(_, _, _)
WritePongs(w, oks, k) ==
    IF k > Len(oks) THEN w
    ELSE WritePongs(Written(w, IRCLine(PongLine, <<>>), oks[k]), oks, k + 1)

(***************************************************************************)
(* Observers.                                                              *)
(***************************************************************************)
CountIf(s, P(_)) == Cardinality({i \in 1..Len(s) : P(s[i])})

IsPingLine(line) == line = PingLine
IsWelcomeLine(line) == StartsWith(line, WelcomePrefix) /\ Contains(line, WelcomeText)

\* The ping lines of a chunk that come after its first welcome line.
PingsAfterWelcome(chunk) ==
    LET lines == ParseIntoArrayLines(chunk)
    IN  IF \E i \in 1..Len(lines) : IsWelcomeLine(lines[i])
        THEN LET w == CHOOSE i \in 1..Len(lines) :
                         IsWelcomeLine(lines[i]) /\ \A j \in 1..(i - 1) : ~IsWelcomeLine(lines[j])
             IN  CountIf(SubSeq(lines, w + 1, Len(lines)), IsPingLine)
        ELSE 0

(***************************************************************************)
(* The inputs.                                                             *)
(***************************************************************************)
CRLF == <<"\r", "\n">>
WelcomeChunk == WelcomePrefix \o <<" ", "bot", " ">> \o WelcomeText \o CRLF
PingChunk == PingLine \o CRLF
ChatChunk == <<":", "foo", "!", "foo", "@", "foo.tmi.twitch.tv", " ", "PRIVMSG", " ",
               "#cha", " ", ":", "a", ":", "b">> \o CRLF
NoticeChunk == <<":", "tmi.twitch.tv", " ", "NOTICE", " ", "*", " ", ":", "Login", " ",
                 "unsuccessful">> \o CRLF
\* One read that holds a line of ":" only, a line with no ":" and one word, a
\* PRIVMSG line with no text, a PRIVMSG line whose sender has no "!", and two
\* chat lines from two senders.
MixedChunk == <<":">> \o CRLF \o <<"garbage">> \o CRLF
              \o <<":", "foo", "!", "foo", "@", "foo.tmi.twitch.tv", " ", "PRIVMSG", " ",
                   "#cha">> \o CRLF
              \o <<":", "tmi.twitch.tv", " ", "PRIVMSG", " ", "#cha", " ", ":", "x">> \o CRLF
              \o ChatChunk
              \o <<":", "bar", "!", "bar", "@", "bar.tmi.twitch.tv", " ", "PRIVMSG", " ",
                   "#cha", " ", ":", "yo">> \o CRLF
ServerData == {WelcomeChunk, PingChunk, ChatChunk, NoticeChunk, MixedChunk}

ConnectArgs == {<<<<"tok">>, <<"Bot">>, <<"ChA">>>>, <<<<"tok">>, <<"Bot">>, <<>>>>,
                <<<<>>, <<"Bot">>, <<"ChA">>>>, <<<<"tok">>, <<>>, <<"ChA">>>>}
ChatTexts == {<<"hi">>}
ChatChannels == {<<>>, <<"chb">>}
JoinChannels == {<<>>, <<"chb">>}

\* What the game thread and the server do in a run of the model: a component
\* connected again and again that sends nothing, one connection that is sent
\* on while the server says little, one connection that more is received on,
\* or one connection that is sent on once and received on.  Each is <<Connect() calls, requests, chunks of the server per socket>>.
LifeCycle == <<MaxConnectCalls, 0, MaxServerSends>>
Session == <<1, MaxRequests, MaxServerSends - 1>>
Listening == <<1, 0, MaxServerSends + 1>>
Chatting == <<1, 1, MaxServerSends>>
Scenarios == {LifeCycle, Session, Listening, Chatting}


\* UTwitchPlayComponent(): no command is registered and none was called.
NoCommands == bound_events_ = {} /\ executed = <<>>

\* The delimiters, as SetupEncapsulationChars leaves them.
EncapsulationCharsAre(command_char, options_char) ==
    /\ command_encapsulation_char_ = command_char
    /\ options_encapsulation_char_ = options_char

(***************************************************************************)
(* The initial state: a component with no receiver, ticking disabled.      *)
(***************************************************************************)
InitWith(scenario) ==
    /\ TwitchMessageReceiver = FALSE
    /\ tickEnabled = FALSE
    /\ game = "idle"
    /\ SendingQueue = <<>>
    /\ ReceivingQueue = <<>>
    /\ ConnectionQueue = <<>>
    /\ ConnectionSocket = "null"
    /\ MessagesThread = FALSE
    /\ ShouldExit = FALSE
    /\ WaitingForAuth = FALSE
    /\ Oauth = <<>>
    /\ Username = <<>>
    /\ Channel = <<>>
    /\ pc = "none"
    /\ orphans = 0
    /\ crashed = FALSE
    /\ socketState = "none"
    /\ pending = <<>>
    /\ wire = <<>>
    /\ OnConnectionMessage = <<>>
    /\ OnMessageReceived = <<>>
    /\ enqueuedEvents = <<>>
    /\ pingsRead = 0
    /\ sinceChat = TimeBetweenMessages
    /\ connectsLeft = scenario[1]
    /\ requestsLeft = scenario[2]
    /\ serverBudget = scenario[3]
    /\ disconnects = "none"
    /\ connectionInfo = NoInfo
    /\ serverSends = 0
    /\ NoCommands
    /\ EncapsulationCharsAre(<<"!">>, <<"#">>)

Init == \E scenario \in Scenarios : InitWith(scenario)

GameIdle == ~crashed /\ game = "idle"
WorkerAt(label) == ~crashed /\ pc = label
WorkerRunning == pc \notin {"none", "done"}

\* The queue as it would be if it handed out the newest item first.
EnqueueAtFront(events) ==
    /\ ConnectionQueue' = events \o ConnectionQueue
    /\ enqueuedEvents' = enqueuedEvents \o events

\* ConnectionQueue->Enqueue, with the observer of what the run has enqueued.
Enqueue(events) ==
    /\ ConnectionQueue' = ConnectionQueue \o events
    /\ enqueuedEvents' = enqueuedEvents \o events

(***************************************************************************)
(* FTwitchMessageReceiver::~FTwitchMessageReceiver, run by the game thread *)
(* when the component resets its TUniquePtr.  It closes a socket that is   *)
(* still set, frees the queues and forgets the thread without stopping or  *)
(* joining it: a thread still inside Run() goes on using freed memory.     *)
(* Closing a socket that Run() already destroyed (the dangling pointer the *)
(* PASS/NICK failure leaves) is a use of freed memory too.                 *)
(***************************************************************************)
DestroyReceiver ==
    /\ TwitchMessageReceiver' = FALSE
    /\ socketState' = IF ConnectionSocket = "open" THEN "closed" ELSE socketState
    /\ crashed' \in (IF ConnectionSocket = "dangling" THEN {FALSE, TRUE} ELSE {FALSE})
    /\ ConnectionSocket' = "null"
    /\ SendingQueue' = <<>>
    /\ ReceivingQueue' = <<>>
    /\ ConnectionQueue' = <<>>
    /\ MessagesThread' = FALSE
    /\ ShouldExit' = FALSE
    /\ WaitingForAuth' = FALSE
    /\ Oauth' = <<>>
    /\ Username' = <<>>
    /\ Channel' = <<>>
    /\ orphans' = IF WorkerRunning THEN orphans + 1 ELSE orphans
    /\ pc' = "none"

(***************************************************************************)
(* UTwitchIRCComponent::Connect.                                           *)
(***************************************************************************)
\* Connect() as it would be with the username test left out.
ConnectRejectedNoUsername(oauth, username) ==
    TwitchMessageReceiver \/ IsEmpty(oauth)

ConnectRejected(oauth, username) ==
    TwitchMessageReceiver \/ IsEmpty(oauth) \/ IsEmpty(username)

ConnectError(oauth, username) ==
    IF TwitchMessageReceiver
    THEN Event("ERROR", <<"Already connected / connecting / pending!">>)
    ELSE Event("ERROR", <<"Invalid connection parameters. Check your strings.">>)

Connect(oauth, username, channel) ==
    /\ GameIdle
    /\ connectsLeft > 0
    /\ connectsLeft' = connectsLeft - 1
    /\ IF ConnectRejected(oauth, username)
       THEN /\ OnConnectionMessage' =
                   Append(OnConnectionMessage, ConnectError(oauth, username))
            /\ UNCHANGED <<TwitchMessageReceiver, tickEnabled, game, receiverVars, pc,
                           orphans, crashed, envVars, OnMessageReceived,
                           enqueuedEvents, pingsRead, sinceChat, requestsLeft,
                           serverBudget, commandVars, disconnects, connectionInfo>>
       ELSE \* MakeUnique<FTwitchMessageReceiver>() and StartConnection
            /\ TwitchMessageReceiver' = TRUE
            /\ SendingQueue' = <<>>
            /\ ReceivingQueue' = <<>>
            /\ ConnectionQueue' = <<>>
            /\ ConnectionSocket' = "null"
            /\ ShouldExit' = FALSE
            /\ WaitingForAuth' = FALSE
            /\ Oauth' = oauth
            /\ Username' = ToLower(username)
            /\ Channel' = ToLower(channel)
            /\ MessagesThread' = TRUE
            /\ pc' = "start"
            /\ tickEnabled' = TRUE
            /\ socketState' = "none"
            /\ pending' = <<>>
            /\ wire' = <<>>
            /\ serverSends' = 0
            /\ OnConnectionMessage' = <<>>
            /\ OnMessageReceived' = <<>>
            /\ enqueuedEvents' = <<>>
            /\ pingsRead' = 0
            /\ sinceChat' = TimeBetweenMessages
            /\ disconnects' = "none"
            /\ connectionInfo' = NoInfo
            /\ UNCHANGED <<game, orphans, crashed, requestsLeft, serverBudget, commandVars>>

(***************************************************************************)
(* FTwitchMessageReceiver::SendMessage, from SendChatMessage and           *)
(* JoinChannel.                                                            *)
(***************************************************************************)
SendMessage(type, message, channel) ==
    /\ requestsLeft > 0
    /\ requestsLeft' = requestsLeft - 1
    /\ SendingQueue' = Append(SendingQueue,
                              [Type |-> type, Message |-> message, Channel |-> channel])
    /\ UNCHANGED <<TwitchMessageReceiver, tickEnabled, game, ReceivingQueue,
                   ConnectionQueue, ConnectionSocket, MessagesThread, ShouldExit,
                   WaitingForAuth, Oauth, Username, Channel, pc, orphans, crashed,
                   envVars, observerVars, connectsLeft, serverBudget, commandVars>>

SendChatMessage(message, channel) ==
    /\ GameIdle
    /\ IF TwitchMessageReceiver
       THEN SendMessage("CHAT_MESSAGE", message, channel)
       ELSE UNCHANGED vars

JoinChannel(channel) ==
    /\ GameIdle
    /\ IF ~TwitchMessageReceiver
       THEN UNCHANGED vars
       ELSE SendMessage("JOIN_MESSAGE", <<>>, channel)

(***************************************************************************)
(* FTwitchMessageReceiver::GetConnectionInfo, called by the game thread on *)
(* a valid receiver.  It copies Oauth, Username and Channel out of the     *)
(* receiver.  The worker assigns Channel when it takes a join request from *)
(* the send queue; a copy made while that assignment is the worker's next  *)
(* step is not ordered with it: the caller gets the old or the new         *)
(* channel, or the copy of a string that is being reallocated brings the   *)
(* process down.                                                           *)
(***************************************************************************)
ChannelWritePending ==
    /\ pc = "drain"
    /\ ~IsEmpty(SendingQueue)
    /\ Head(SendingQueue).Type = "JOIN_MESSAGE"

GetConnectionInfo ==
    /\ GameIdle
    /\ TwitchMessageReceiver
    /\ requestsLeft > 0
    /\ requestsLeft' = requestsLeft - 1
    /\ \E channelOut \in (IF ChannelWritePending
                           THEN {Channel, Head(SendingQueue).Channel} ELSE {Channel}) :
           connectionInfo' = [oauth |-> Oauth, username |-> Username, channel |-> channelOut]
    /\ crashed' \in (IF ChannelWritePending THEN {FALSE, TRUE} ELSE {FALSE})
    /\ UNCHANGED <<TwitchMessageReceiver, tickEnabled, game, receiverVars, pc, orphans,
                   envVars, OnConnectionMessage, OnMessageReceived, enqueuedEvents,
                   pingsRead, sinceChat, disconnects, connectsLeft, serverBudget, commandVars>>

(***************************************************************************)
(* FTwitchMessageReceiver::StopConnection, from Disconnect (no wait) and   *)
(* EndPlay (Kill(true): Stop(), then wait for the thread to finish).       *)
(***************************************************************************)
StopConnection(waitTillComplete) ==
    IF MessagesThread
    THEN /\ ShouldExit' = TRUE
         /\ game' = IF waitTillComplete THEN "killing" ELSE game
    ELSE UNCHANGED <<ShouldExit, game>>

Disconnect ==
    /\ GameIdle
    /\ IF ~TwitchMessageReceiver
       THEN UNCHANGED vars
       ELSE /\ StopConnection(FALSE)
            /\ disconnects' = IF disconnects = "none" THEN "once" ELSE "again"
            /\ UNCHANGED <<TwitchMessageReceiver, tickEnabled, SendingQueue,
                           ReceivingQueue, ConnectionQueue, ConnectionSocket,
                           MessagesThread, WaitingForAuth, Oauth, Username, Channel,
                           pc, orphans, crashed, envVars, OnConnectionMessage,
                           OnMessageReceived, enqueuedEvents, pingsRead, sinceChat,
                           connectionInfo, budgetVars, commandVars>>

EndPlay ==
    /\ GameIdle
    /\ IF TwitchMessageReceiver
       THEN StopConnection(TRUE)
       ELSE /\ game' = "ended"
            /\ UNCHANGED ShouldExit
    /\ UNCHANGED <<TwitchMessageReceiver, tickEnabled, SendingQueue, ReceivingQueue,
                   ConnectionQueue, ConnectionSocket, MessagesThread, WaitingForAuth,
                   Oauth, Username, Channel, pc, orphans, crashed, envVars,
                   observerVars, budgetVars, commandVars>>

\* Kill(true) returns once the thread has left Run().
KillReturns ==
    /\ ~crashed
    /\ game = "killing"
    /\ pc = "done"
    /\ game' = "ended"
    /\ UNCHANGED <<TwitchMessageReceiver, tickEnabled, receiverVars, pc, orphans,
                   crashed, envVars, observerVars, budgetVars, commandVars>>

(***************************************************************************)
(* UTwitchPlayComponent, the command layer.  Its constructor binds         *)
(* MessageReceivedHandler to OnMessageReceived, so the handler runs once   *)
(* for every chat message the component broadcasts.  A chat message is a   *)
(* sequence of characters here.  FString compares and searches without     *)
(* regard to the case of letters: operator==, which is how the TMap        *)
(* matches its keys, and Find(), whose search case defaults to IgnoreCase. *)
(***************************************************************************)
MaxMessageLen == 5

ToUpper(c) == IF c = "a" THEN "A" ELSE c

EqualsIgnoreCase(s, t) ==
    Len(s) = Len(t) /\ \A i \in 1..Len(s) : ToUpper(s[i]) = ToUpper(t[i])

INDEX_NONE == -1

Clamp(x, lo, hi) == IF x < lo THEN lo ELSE IF x < hi THEN x ELSE hi

\* FString::Find(SubStr, IgnoreCase, FromStart, StartPosition): the index,
\* from 0, of the first occurrence that starts at or after StartPosition.
Find(s, SubStr, StartPosition) ==
    LET start == IF StartPosition = INDEX_NONE THEN 0
                 ELSE Clamp(StartPosition, 0, Len(s) - 1)
        found == {i \in 0..(Len(s) - Len(SubStr)) :
                     i >= start /\ EqualsIgnoreCase(SubSeq(s, i + 1, i + Len(SubStr)), SubStr)}
    IN  IF found = {} THEN INDEX_NONE
        ELSE CHOOSE i \in found : \A j \in found : i <= j

\* FString::Mid(Start, Count).
Mid(s, Start, Count) == SubSeq(s, Start + 1, Start + Count)

\* Lines 91-124.
GetDelimitedString(in_string, delimiter) ==
    IF IsEmpty(in_string) THEN <<>>
    ELSE LET command_start_index == Find(in_string, delimiter, INDEX_NONE)
         IN  IF \/ command_start_index = INDEX_NONE
                \/ command_start_index + Len(delimiter) = Len(in_string)
             THEN <<>>
             ELSE LET command_end_index ==
                          Find(in_string, delimiter, command_start_index + Len(delimiter))
                  IN  IF command_end_index = INDEX_NONE THEN <<>>
                      ELSE Mid(in_string, command_start_index + Len(delimiter),
                               command_end_index - (command_start_index + Len(delimiter)))

GetCommandString(message) == GetDelimitedString(message, command_encapsulation_char_)

GetCommandOptionsStrings(message) ==
    ParseIntoArray(GetDelimitedString(message, options_encapsulation_char_), ",")

\* TMap<FString, FOnCommandReceived>::Find: the entries whose key is the name.
Registered(command_name) ==
    {entry \in bound_events_ : EqualsIgnoreCase(entry.name, command_name)}

\* A delegate that ExecuteIfBound would call.
IsBound(delegate) == delegate # "unbound"

\* Lines 69-89: the delegate calls the handler makes for one chat message.
MessageReceivedHandler(message, username) ==
    LET command == GetCommandString(message)
    IN  IF IsEmpty(command) \/ Registered(command) = {} THEN <<>>
        ELSE LET registered_command == CHOOSE entry \in Registered(command) : TRUE
             IN  IF IsBound(registered_command.delegate)
                 THEN <<[delegate |-> registered_command.delegate,
                         command |-> command,
                         options |-> GetCommandOptionsStrings(message),
                         username |-> username]>>
                 ELSE <<>>

\* OnMessageReceived.Broadcast for each message of a poll, in order.
RECURSIVE Broadcast(_, _)
Broadcast(messages, usernames) ==
    IF messages = <<>> THEN <<>>
    ELSE MessageReceivedHandler(Head(messages), Head(usernames))
             \o Broadcast(Tail(messages), Tail(usernames))

\* Lines 13-17.
SetupEncapsulationChars(command_char, options_char) ==
    /\ GameIdle
    /\ command_encapsulation_char_' = command_char
    /\ options_encapsulation_char_' = options_char
    /\ UNCHANGED <<TwitchMessageReceiver, tickEnabled, game, receiverVars, pc, orphans,
                   crashed, envVars, observerVars, budgetVars, bound_events_, executed>>

\* The registration as it would be if it added an entry whatever the map holds.
RegisterCommandAlwaysAdds(command_name, callback_function) ==
    /\ GameIdle
    /\ bound_events_' = IF IsEmpty(command_name) THEN bound_events_
                        ELSE bound_events_ \union
                                 {[name |-> command_name, delegate |-> callback_function]}
    /\ UNCHANGED <<TwitchMessageReceiver, tickEnabled, game, receiverVars, pc, orphans,
                   crashed, envVars, observerVars, budgetVars,
                   command_encapsulation_char_, options_encapsulation_char_, executed>>

\* Lines 19-48: an empty name is refused; the delegate of a name that is
\* registered is overwritten in place; a new name gets a new entry.
RegisterCommand(command_name, callback_function) ==
    /\ GameIdle
    /\ IF IsEmpty(command_name)
       THEN UNCHANGED bound_events_
       ELSE IF Registered(command_name) # {}
       THEN \E registered_command \in Registered(command_name) :
                bound_events_' = (bound_events_ \ {registered_command}) \union
                    {[registered_command EXCEPT !.delegate = callback_function]}
       ELSE bound_events_' = bound_events_ \union
                {[name |-> command_name, delegate |-> callback_function]}
    /\ UNCHANGED <<TwitchMessageReceiver, tickEnabled, game, receiverVars, pc, orphans,
                   crashed, envVars, observerVars, budgetVars,
                   command_encapsulation_char_, options_encapsulation_char_, executed>>

\* Lines 50-67: an empty name, or one that is not registered, is refused.
UnregisterCommand(command_name) ==
    /\ GameIdle
    /\ bound_events_' = IF IsEmpty(command_name) THEN bound_events_
                        ELSE bound_events_ \ Registered(command_name)
    /\ UNCHANGED <<TwitchMessageReceiver, tickEnabled, game, receiverVars, pc, orphans,
                   crashed, envVars, observerVars, budgetVars,
                   command_encapsulation_char_, options_encapsulation_char_, executed>>

(***************************************************************************)
(* UTwitchIRCComponent::TickComponent.  The drain of the connection queue  *)
(* and the drain of the chat queue are two steps of the game thread, so    *)
(* the worker may enqueue between them.                                    *)
(***************************************************************************)
IsTerminal(e) == e.type \in TerminalTypes

TickComponent ==
    /\ GameIdle
    /\ tickEnabled
    /\ IF TwitchMessageReceiver
       THEN LET stillConnected == \A i \in 1..Len(ConnectionQueue) :
                                      ~IsTerminal(ConnectionQueue[i])
            IN  /\ OnConnectionMessage' = OnConnectionMessage \o ConnectionQueue
                /\ IF ~stillConnected
                   THEN /\ tickEnabled' = FALSE
                        /\ DestroyReceiver
                        /\ UNCHANGED game
                   ELSE /\ ConnectionQueue' = <<>>
                        /\ game' = "pull"
                        /\ UNCHANGED <<TwitchMessageReceiver, tickEnabled, SendingQueue,
                                       ReceivingQueue, ConnectionSocket, MessagesThread,
                                       ShouldExit, WaitingForAuth, Oauth, Username,
                                       Channel, pc, orphans, crashed, socketState>>
                /\ UNCHANGED <<pending, wire, serverSends, OnMessageReceived,
                               enqueuedEvents, pingsRead, sinceChat, disconnects,
                               connectionInfo, budgetVars, commandVars>>
       ELSE /\ tickEnabled' = FALSE
            /\ UNCHANGED <<TwitchMessageReceiver, game, receiverVars, pc, orphans,
                           crashed, envVars, observerVars, budgetVars, commandVars>>

\* FTwitchMessageReceiver::PullMessages: every batch appended to two arrays.
RECURSIVE PulledUsernames(_)
PulledUsernames(q) == IF q = <<>> THEN <<>> ELSE Head(q).Usernames \o PulledUsernames(Tail(q))
RECURSIVE PulledMessages(_)
PulledMessages(q) == IF q = <<>> THEN <<>> ELSE Head(q).Messages \o PulledMessages(Tail(q))

\* The poll as it would be if the game thread also emptied the send queue.
TickPullMessagesTakesRequests ==
    /\ ~crashed
    /\ game = "pull"
    /\ LET usernames == PulledUsernames(ReceivingQueue)
           messages == PulledMessages(ReceivingQueue)
       IN  /\ ReceivingQueue' = <<>>
           /\ OnMessageReceived' = OnMessageReceived \o
                  [i \in 1..Len(messages) |-> <<messages[i], usernames[i]>>]
           /\ executed' = Broadcast(messages, usernames)
    /\ SendingQueue' = <<>>
    /\ game' = "idle"
    /\ UNCHANGED <<TwitchMessageReceiver, tickEnabled, ConnectionQueue, crashed,
                   ConnectionSocket, MessagesThread, ShouldExit, WaitingForAuth, Oauth,
                   Username, Channel, pc, orphans, envVars, OnConnectionMessage,
                   enqueuedEvents, pingsRead, sinceChat, disconnects, connectionInfo,
                   budgetVars, bound_events_, command_encapsulation_char_,
                   options_encapsulation_char_>>

TickPullMessages ==
    /\ ~crashed
    /\ game = "pull"
    /\ LET usernames == PulledUsernames(ReceivingQueue)
           messages == PulledMessages(ReceivingQueue)
       IN  /\ ReceivingQueue' = <<>>
           /\ IF Len(usernames) = Len(messages)
              THEN /\ OnMessageReceived' = OnMessageReceived \o
                          [i \in 1..Len(messages) |-> <<messages[i], usernames[i]>>]
                   /\ executed' = Broadcast(messages, usernames)
                   /\ crashed' = FALSE
              ELSE /\ crashed' = TRUE   \* check(usernames.Num() == messages.Num())
                   /\ UNCHANGED <<OnMessageReceived, executed>>
    /\ game' = "idle"
    /\ UNCHANGED <<TwitchMessageReceiver, tickEnabled, SendingQueue, ConnectionQueue,
                   ConnectionSocket, MessagesThread, ShouldExit, WaitingForAuth, Oauth,
                   Username, Channel, pc, orphans, envVars, OnConnectionMessage,
                   enqueuedEvents, pingsRead, sinceChat, disconnects, connectionInfo,
                   budgetVars, bound_events_, command_encapsulation_char_,
                   options_encapsulation_char_>>


(***************************************************************************)
(* FTwitchMessageReceiver::Run, the worker thread, one action per block    *)
(* between two points where the game thread can see or change what the     *)
(* worker reads.                                                           *)
(***************************************************************************)
workerFrame == <<TwitchMessageReceiver, tickEnabled, game, MessagesThread, Oauth,
                 Username, orphans, crashed, OnConnectionMessage, OnMessageReceived,
                 disconnects, connectionInfo, budgetVars, commandVars>>

\* Lines 58-125: resolve, create the socket, connect, send PASS and NICK.
RunConnect ==
    /\ WorkerAt("start")
    /\ \E outcome \in {"Could not resolve hostname!", "Could not create socket!",
                       "Connection to Twitch IRC failed!", "connected"} :
         IF outcome # "connected"
         THEN /\ Enqueue(<<Event("FAILED_TO_CONNECT", <<outcome>>)>>)
              /\ pc' = "ret"
              /\ UNCHANGED <<ConnectionSocket, WaitingForAuth, socketState, wire>>
         ELSE \E pass_ok, nick_ok \in {TRUE, FALSE} :
              /\ wire' = Written(Written(wire, IRCLine(<<"PASS", " ">> \o Oauth, <<>>), pass_ok),
                                 IRCLine(<<"NICK", " ">> \o Username, <<>>), nick_ok)
              /\ IF pass_ok /\ nick_ok
                 THEN /\ ConnectionSocket' = "open"
                      /\ socketState' = "connected"
                      /\ WaitingForAuth' = TRUE
                      /\ pc' = "auth"
                      /\ UNCHANGED <<ConnectionQueue, enqueuedEvents>>
                 ELSE \* the socket is destroyed but ConnectionSocket still points to it
                      /\ ConnectionSocket' = "dangling"
                      /\ socketState' = "closed"
                      /\ Enqueue(<<Event("FAILED_TO_CONNECT",
                              <<"Could not send initial PASS and NICK messages for Auth">>)>>)
                      /\ pc' = "ret"
                      /\ UNCHANGED WaitingForAuth
    /\ UNCHANGED <<workerFrame, SendingQueue, ReceivingQueue, ShouldExit, Channel,
                   pending, serverSends, pingsRead, sinceChat>>

\* Close(), DestroySocket() and ConnectionSocket = nullptr.
ReleaseSocket ==
    /\ ConnectionSocket' = "null"
    /\ socketState' = "closed"

\* The failure path as it would be without the release of the socket.
AuthFailureKeepsSocket(connectionMessage) ==
    /\ Enqueue(<<Event("FAILED_TO_AUTHENTICATE", connectionMessage)>>)
    /\ pc' = "ret"
    /\ UNCHANGED <<WaitingForAuth, pingsRead, ConnectionSocket, socketState>>

\* Lines 133-141: anything but the welcome ends the run.
AuthFailure(connectionMessage) ==
    /\ ReleaseSocket
    /\ Enqueue(<<Event("FAILED_TO_AUTHENTICATE", connectionMessage)>>)
    /\ pc' = "ret"
    /\ UNCHANGED <<WaitingForAuth, pingsRead>>

\* The welcome as it would be if the worker went on without reporting it.
AuthSuccessUnannounced(connectionMessage) ==
    /\ WaitingForAuth' = FALSE
    /\ pc' = "join"
    /\ pingsRead' = PingsAfterWelcome(connectionMessage)
    /\ UNCHANGED <<ConnectionSocket, socketState, ConnectionQueue, enqueuedEvents>>

\* Lines 143-145.
AuthSuccess(connectionMessage) ==
    /\ Enqueue(<<Event("CONNECTED", connectionMessage)>>)
    /\ WaitingForAuth' = FALSE
    /\ pc' = "join"
    /\ pingsRead' = PingsAfterWelcome(connectionMessage)
    /\ UNCHANGED <<ConnectionSocket, socketState>>

\* Lines 127-167: one turn of while(WaitingForAuth).  With nothing to read the
\* worker sleeps and tries again; ShouldExit is not looked at.
RunAuth ==
    /\ WorkerAt("auth")
    /\ IF IsEmpty(pending)
       THEN UNCHANGED vars
       ELSE /\ pending' = <<>>
            /\ IF ~IsWelcome(pending)
               THEN AuthFailure(pending)
               ELSE AuthSuccess(pending)
            /\ UNCHANGED <<workerFrame, SendingQueue, ReceivingQueue, ShouldExit,
                           Channel, wire, serverSends, sinceChat>>

\* Lines 147-160: JOIN the configured channel.
RunJoin ==
    /\ WorkerAt("join")
    /\ IF ~IsEmpty(Channel)
       THEN \E join_ok \in SendResults :
            /\ wire' = Written(wire, IRCLine(<<"JOIN", " ", "#">> \o Channel, <<>>), join_ok)
            /\ IF ~join_ok
               THEN /\ ReleaseSocket
                    /\ Enqueue(<<Event("FAILED_TO_AUTHENTICATE", <<"Failed to join channel">>)>>)
                    /\ pc' = "ret"
               ELSE /\ pc' = "loop"
                    /\ UNCHANGED <<ConnectionSocket, socketState, ConnectionQueue,
                                   enqueuedEvents>>
       ELSE /\ pc' = "loop"
            /\ UNCHANGED <<ConnectionSocket, socketState, ConnectionQueue,
                           enqueuedEvents, wire>>
    /\ UNCHANGED <<workerFrame, SendingQueue, ReceivingQueue, ShouldExit,
                   WaitingForAuth, Channel, pending, serverSends, pingsRead, sinceChat>>

\* Lines 169-171 and 223-227: the loop test and the connection-state test.
RunLoop ==
    /\ WorkerAt("loop")
    /\ IF ConnectionSocket # "null" /\ ~ShouldExit
       THEN IF socketState = "connected"
            THEN /\ pc' = "recv"
                 /\ UNCHANGED <<ShouldExit, ConnectionQueue, enqueuedEvents>>
            ELSE /\ Enqueue(<<Event("DISCONNECTED", LostText)>>)
                 /\ ShouldExit' = TRUE
                 /\ pc' = "loop"
       ELSE /\ pc' = "exit"
            /\ UNCHANGED <<ShouldExit, ConnectionQueue, enqueuedEvents>>
    /\ UNCHANGED <<workerFrame, SendingQueue, ReceivingQueue, ConnectionSocket,
                   WaitingForAuth, Channel, envVars, pingsRead, sinceChat>>

\* Lines 173-182: read what is pending, parse it, answer the pings, queue the
\* chat messages as one batch.
RunReceive ==
    /\ WorkerAt("recv")
    /\ IF IsEmpty(pending)
       THEN UNCHANGED <<pending, wire, ConnectionQueue, enqueuedEvents, ReceivingQueue,
                        pingsRead>>
       ELSE LET newMessages == ParseMessage(pending)
            IN  /\ pending' = <<>>
                /\ \E oks \in [1..newMessages.Pongs -> SendResults] :
                       wire' = WritePongs(wire, oks, 1)
                /\ Enqueue(newMessages.Events)
                /\ ReceivingQueue' =
                       IF Len(newMessages.Messages) # 0
                       THEN Append(ReceivingQueue, [Usernames |-> newMessages.Usernames,
                                                    Messages |-> newMessages.Messages])
                       ELSE ReceivingQueue
                /\ pingsRead' = pingsRead + CountIf(ParseIntoArrayLines(pending), IsPingLine)
    /\ pc' = "drain"
    /\ UNCHANGED <<workerFrame, SendingQueue, ConnectionSocket, ShouldExit,
                   WaitingForAuth, Channel, socketState, serverSends, sinceChat>>

\* The routing as it would be if every chat request went to the joined channel.
ChatTargetJoinedOnly(sendMessage) ==
    Channel

\* Lines 188-205: a chat request goes to its own channel, else to the joined one.
ChatTarget(sendMessage) ==
    IF ~IsEmpty(sendMessage.Channel) THEN sendMessage.Channel ELSE Channel

NoChannelError ==
    Event("ERROR", <<"Cannot send message. No channel specified, and not joined to a channel.">>)

\* The dispatch as it would be if a request with nowhere to go were only dropped.
DrainChatDropsSilently(sendMessage) ==
    /\ IF ~IsEmpty(ChatTarget(sendMessage))
       THEN \E ok \in SendResults :
            /\ wire' = Written(wire, IRCLine(sendMessage.Message, ChatTarget(sendMessage)), ok)
            /\ sinceChat' = IF ok THEN 0 ELSE sinceChat
            /\ UNCHANGED <<ConnectionQueue, enqueuedEvents>>
       ELSE UNCHANGED <<wire, sinceChat, ConnectionQueue, enqueuedEvents>>
    /\ UNCHANGED Channel

DrainChat(sendMessage) ==
    /\ IF ~IsEmpty(ChatTarget(sendMessage))
       THEN \E ok \in SendResults :
            /\ wire' = Written(wire, IRCLine(sendMessage.Message, ChatTarget(sendMessage)), ok)
            /\ sinceChat' = IF ok THEN 0 ELSE sinceChat
            /\ UNCHANGED <<ConnectionQueue, enqueuedEvents>>
       ELSE /\ Enqueue(<<NoChannelError>>)
            /\ UNCHANGED <<wire, sinceChat>>
    /\ UNCHANGED Channel

\* Lines 206-217: PART the joined channel, take the new one, JOIN it.
DrainJoin(sendMessage) ==
    /\ \E part_ok, join_ok \in SendResults :
         LET parted == IF ~IsEmpty(Channel)
                       THEN Written(wire, IRCLine(<<"PART", " ", "#">> \o Channel, <<>>), part_ok)
                       ELSE wire
         IN  wire' = IF ~IsEmpty(sendMessage.Channel)
                     THEN Written(parted,
                                  IRCLine(<<"JOIN", " ", "#">> \o sendMessage.Channel, <<>>),
                                  join_ok)
                     ELSE parted
    /\ Channel' = sendMessage.Channel
    /\ UNCHANGED <<ConnectionQueue, enqueuedEvents, sinceChat>>

\* Lines 185-221: one Dequeue of the send loop, or the sleep once it is empty.
RunDrain ==
    /\ WorkerAt("drain")
    /\ IF ~IsEmpty(SendingQueue)
       THEN /\ SendingQueue' = Tail(SendingQueue)
            /\ IF Head(SendingQueue).Type = "CHAT_MESSAGE"
               THEN DrainChat(Head(SendingQueue))
               ELSE DrainJoin(Head(SendingQueue))
            /\ pc' = "drain"
       ELSE /\ sinceChat' = IF sinceChat < TimeBetweenMessages THEN sinceChat + 1
                            ELSE sinceChat
            /\ pc' = "loop"
            /\ UNCHANGED <<SendingQueue, Channel, wire, ConnectionQueue, enqueuedEvents>>
    /\ UNCHANGED <<workerFrame, ReceivingQueue, ConnectionSocket, ShouldExit,
                   WaitingForAuth, socketState, pending, serverSends, pingsRead>>

\* Lines 230-240: after the loop, PART and report, if the socket is still connected.
RunExit ==
    /\ WorkerAt("exit")
    /\ IF ConnectionSocket # "null"
       THEN /\ IF socketState = "connected"
               THEN /\ \E part_ok \in SendResults :
                         wire' = IF ~IsEmpty(Channel)
                                 THEN Written(wire, IRCLine(<<"PART", " ", "#">> \o Channel, <<>>),
                                              part_ok)
                                 ELSE wire
                    /\ Enqueue(<<Event("DISCONNECTED", GracefulText)>>)
               ELSE UNCHANGED <<wire, ConnectionQueue, enqueuedEvents>>
            /\ pc' = "close"
       ELSE /\ pc' = "ret"
            /\ UNCHANGED <<wire, ConnectionQueue, enqueuedEvents>>
    /\ UNCHANGED <<workerFrame, SendingQueue, ReceivingQueue, ConnectionSocket,
                   ShouldExit, WaitingForAuth, Channel, socketState, pending,
                   serverSends, pingsRead, sinceChat>>

\* Lines 242-244.
RunClose ==
    /\ WorkerAt("close")
    /\ ReleaseSocket
    /\ pc' = "ret"
    /\ UNCHANGED <<workerFrame, SendingQueue, ReceivingQueue, ConnectionQueue,
                   ShouldExit, WaitingForAuth, Channel, pending, wire, serverSends,
                   observerVars>>

\* return, and the thread's call of Exit().
RunReturn ==
    /\ WorkerAt("ret")
    /\ pc' = "done"
    /\ UNCHANGED <<TwitchMessageReceiver, tickEnabled, game, receiverVars, orphans,
                   crashed, envVars, observerVars, budgetVars, commandVars>>

\* A thread whose receiver was destroyed under it: it leaves Run() unharmed,
\* or the freed memory it uses brings the process down.
OrphanStep ==
    /\ ~crashed
    /\ orphans > 0
    /\ orphans' = orphans - 1
    /\ crashed' \in {FALSE, TRUE}
    /\ UNCHANGED <<TwitchMessageReceiver, tickEnabled, game, receiverVars, pc,
                   envVars, observerVars, budgetVars, commandVars>>

(***************************************************************************)
(* The environment: the server and the network.                            *)
(***************************************************************************)
ServerSend(chunk) ==
    /\ ~crashed
    /\ socketState = "connected"
    /\ serverSends < serverBudget
    /\ serverSends' = serverSends + 1
    /\ pending' = pending \o chunk
    /\ UNCHANGED <<TwitchMessageReceiver, tickEnabled, game, receiverVars, pc, orphans,
                   crashed, socketState, wire, observerVars, budgetVars, commandVars>>

ConnectionLost ==
    /\ ~crashed
    /\ socketState = "connected"
    /\ socketState' = "lost"
    /\ UNCHANGED <<TwitchMessageReceiver, tickEnabled, game, receiverVars, pc, orphans,
                   crashed, pending, wire, serverSends, observerVars, budgetVars, commandVars>>

(***************************************************************************)
(* The specification.                                                      *)
(***************************************************************************)
WorkerStep ==
    \/ RunConnect
    \/ RunAuth
    \/ RunJoin
    \/ RunLoop
    \/ RunReceive
    \/ RunDrain
    \/ RunExit
    \/ RunClose
    \/ RunReturn

GameStep ==
    \/ \E args \in ConnectArgs : Connect(args[1], args[2], args[3])
    \/ \E message \in ChatTexts, channel \in ChatChannels : SendChatMessage(message, channel)
    \/ \E channel \in JoinChannels : JoinChannel(channel)
    \/ GetConnectionInfo
    \/ Disconnect
    \/ EndPlay
    \/ KillReturns
    \/ TickComponent
    \/ TickPullMessages

Next ==
    \/ GameStep
    \/ WorkerStep
    \/ OrphanStep
    \/ \E chunk \in ServerData : ServerSend(chunk)
    \/ ConnectionLost

Spec == Init /\ [][Next]_vars


\* The game thread keeps ticking and never ends play; the worker thread and
\* the ticks are scheduled again and again, the server owes nothing.
NextPolling ==
    \/ \E args \in ConnectArgs : Connect(args[1], args[2], args[3])
    \/ Disconnect
    \/ TickComponent
    \/ TickPullMessages
    \/ WorkerStep
    \/ OrphanStep
    \/ \E chunk \in ServerData : ServerSend(chunk)
    \/ ConnectionLost

FairSpec ==
    /\ InitWith(LifeCycle)
    /\ [][NextPolling]_vars
    /\ WF_vars(WorkerStep)
    /\ WF_vars(TickComponent)
    /\ WF_vars(TickPullMessages)

(***************************************************************************)
(* ParseMessage on its own: a worker in its steady state, joined to a      *)
(* channel, about to read one chat line whose text is any sequence of up   *)
(* to MaxTextLen atoms out of ":", " " and a word.                         *)
(***************************************************************************)
TextAtoms == {":", " ", "a"}
ChatTextInputs == UNION {[1..n -> TextAtoms] : n \in 1..MaxTextLen}
ChatLinePrefix == <<":", "foo", "!", "foo", "@", "foo.tmi.twitch.tv", " ", "PRIVMSG", " ",
                    "#bar", " ", ":">>

InitParsing ==
    /\ TwitchMessageReceiver = TRUE
    /\ tickEnabled = TRUE
    /\ game = "idle"
    /\ SendingQueue = <<>>
    /\ ReceivingQueue = <<>>
    /\ ConnectionQueue = <<>>
    /\ ConnectionSocket = "open"
    /\ MessagesThread = TRUE
    /\ ShouldExit = FALSE
    /\ WaitingForAuth = FALSE
    /\ Oauth = <<"tok">>
    /\ Username = <<"bot">>
    /\ Channel = <<"bar">>
    /\ pc = "recv"
    /\ orphans = 0
    /\ crashed = FALSE
    /\ socketState = "connected"
    /\ \E text \in ChatTextInputs : pending = ChatLinePrefix \o text \o CRLF
    /\ wire = <<IRCLine(<<"PASS", " ", "tok">>, <<>>), IRCLine(<<"NICK", " ", "bot">>, <<>>),
                IRCLine(<<"JOIN", " ", "#", "bar">>, <<>>)>>
    /\ OnConnectionMessage = <<Event("CONNECTED", WelcomeChunk)>>
    /\ OnMessageReceived = <<>>
    /\ enqueuedEvents = <<Event("CONNECTED", WelcomeChunk)>>
    /\ pingsRead = 0
    /\ sinceChat = TimeBetweenMessages
    /\ connectsLeft = 0
    /\ requestsLeft = 0
    /\ serverBudget = 2
    /\ disconnects = "none"
    /\ connectionInfo = NoInfo
    /\ serverSends = 2
    /\ NoCommands
    /\ EncapsulationCharsAre(<<"!">>, <<"#">>)

NextParsing ==
    \/ RunLoop
    \/ RunReceive
    \/ RunDrain
    \/ TickComponent
    \/ TickPullMessages

ParseSpec == InitParsing /\ [][NextParsing]_vars

(***************************************************************************)
(* The command layer on its own: a connected component whose worker has    *)
(* queued one chat message, any sequence of up to MaxMessageLen characters *)
(* out of "!", "#" and a letter in both cases, and a game that sets the    *)
(* delimiters, registers and unregisters commands, and polls.              *)
(***************************************************************************)
CommandAtoms == {"!", "#", "a", "A"}
ChatMessages == UNION {[1..n -> CommandAtoms] : n \in 0..MaxMessageLen}
CommandNames == {<<>>, <<"a">>, <<"A">>, <<"#">>}
Delegates == {"OnJump", "OnFire", "unbound"}
EncapsulationChars == {<<<<"!">>, <<"#">>>>, <<<<"a">>, <<"!">>>>}

InitCommands ==
    /\ TwitchMessageReceiver = TRUE
    /\ tickEnabled = TRUE
    /\ game = "idle"
    /\ SendingQueue = <<>>
    /\ \E message \in ChatMessages :
           ReceivingQueue = <<[Usernames |-> <<<<"foo">>>>, Messages |-> <<message>>]>>
    /\ ConnectionQueue = <<>>
    /\ ConnectionSocket = "open"
    /\ MessagesThread = TRUE
    /\ ShouldExit = FALSE
    /\ WaitingForAuth = FALSE
    /\ Oauth = <<"tok">>
    /\ Username = <<"bot">>
    /\ Channel = <<"bar">>
    /\ pc = "drain"
    /\ orphans = 0
    /\ crashed = FALSE
    /\ socketState = "connected"
    /\ pending = <<>>
    /\ wire = <<IRCLine(<<"PASS", " ", "tok">>, <<>>), IRCLine(<<"NICK", " ", "bot">>, <<>>),
                IRCLine(<<"JOIN", " ", "#", "bar">>, <<>>)>>
    /\ OnConnectionMessage = <<Event("CONNECTED", WelcomeChunk)>>
    /\ OnMessageReceived = <<>>
    /\ enqueuedEvents = <<Event("CONNECTED", WelcomeChunk)>>
    /\ pingsRead = 0
    /\ sinceChat = TimeBetweenMessages
    /\ connectsLeft = 0
    /\ requestsLeft = 0
    /\ serverBudget = 2
    /\ disconnects = "none"
    /\ connectionInfo = NoInfo
    /\ serverSends = 2
    /\ NoCommands
    /\ \E chars \in EncapsulationChars : EncapsulationCharsAre(chars[1], chars[2])

NextCommands ==
    \/ \E chars \in EncapsulationChars : SetupEncapsulationChars(chars[1], chars[2])
    \/ \E command_name \in CommandNames, callback_function \in Delegates :
           RegisterCommand(command_name, callback_function)
    \/ \E command_name \in CommandNames : UnregisterCommand(command_name)
    \/ TickComponent
    \/ TickPullMessages

CommandSpec == InitCommands /\ [][NextCommands]_vars

(***************************************************************************)
(* Properties.                                                             *)
(***************************************************************************)
Last(s) == s[Len(s)]
Terminals(events) == {i \in 1..Len(events) : events[i].type \in TerminalTypes}
OfType(events, type) == {i \in 1..Len(events) : events[i].type = type}
LineIs(line, verb) == Len(line) > 0 /\ line[1] = verb

\* C1: Connect() called while a receiver exists, or with an empty token or an
\* empty username, creates no receiver and no thread, leaves the existing
\* receiver, its thread and its three queues as they are, and broadcasts one
\* ERROR to the consumer.
C1_ConnectFailsFast ==
    [][\A args \in ConnectArgs :
          (/\ Connect(args[1], args[2], args[3])
           /\ (TwitchMessageReceiver \/ args[1] = <<>> \/ args[2] = <<>>))
          => /\ UNCHANGED <<TwitchMessageReceiver, tickEnabled, receiverVars, pc, orphans,
                            envVars>>
             /\ Len(OnConnectionMessage') = Len(OnConnectionMessage) + 1
             /\ Last(OnConnectionMessage').type = "ERROR"
             /\ SubSeq(OnConnectionMessage', 1, Len(OnConnectionMessage)) = OnConnectionMessage
      ]_vars

\* A Connect() was refused while a worker was running with events queued.
C1_Witness ==
    /\ TwitchMessageReceiver
    /\ WorkerRunning
    /\ ConnectionQueue # <<>>
    /\ OnConnectionMessage # <<>>
    /\ Last(OnConnectionMessage) =
           Event("ERROR", <<"Already connected / connecting / pending!">>)

\* C2: a worker run that has ended has enqueued exactly one terminal event
\* (FAILED_TO_CONNECT, FAILED_TO_AUTHENTICATE or DISCONNECTED).
C2_OneTerminalEventPerRun ==
    pc = "done" => Cardinality(Terminals(enqueuedEvents)) = 1

\* C3: at most one worker thread is alive per component: a worker that was
\* torn down has left Run() before another one is started.
C3_AtMostOneWorker ==
    orphans + (IF WorkerRunning THEN 1 ELSE 0) <= 1

\* C4: once a stop was requested of a receiver, and the game keeps ticking,
\* the component eventually destroys the receiver (so that Connect() is
\* accepted again).
C4_StopLeadsToTeardown ==
    (TwitchMessageReceiver /\ ShouldExit) ~> (~TwitchMessageReceiver \/ crashed)

\* C5: a stop request makes the worker go on to its end at whatever stage it
\* is, without any further data from the server: a worker that was asked to
\* stop and has not finished always has a step to take.
C5_StopNeedsNoServerData ==
    (TwitchMessageReceiver /\ ShouldExit /\ WorkerRunning /\ ~crashed)
        => ENABLED <<WorkerStep>>_vars


C8_EveryPingAnswered ==
    (socketState = "connected" /\ pc \in {"join", "loop", "recv", "drain"})
        => Cardinality({i \in 1..Len(wire) : wire[i] = IRCLine(PongLine, <<>>)}) = pingsRead

\* C9: two consecutive PRIVMSG lines of one worker are written at least
\* TimeBetweenMessages apart.
C9_ChatSendsAreSpaced ==
    [][(Len(wire') = Len(wire) + 1 /\ LineIs(Last(wire'), "PRIVMSG"))
          => sinceChat >= TimeBetweenMessages]_vars

\* C10: a chat request the worker takes from the send queue while the
\* connection is up and no stop was requested is written to the wire as one
\* line or answered with one ERROR event.
C10_ChatRequestHandled ==
    [][(/\ RunDrain
        /\ ~IsEmpty(SendingQueue)
        /\ Head(SendingQueue).Type = "CHAT_MESSAGE"
        /\ socketState = "connected"
        /\ ~ShouldExit)
          => \/ /\ Len(wire') = Len(wire) + 1
                /\ LineIs(Last(wire'), "PRIVMSG")
                /\ enqueuedEvents' = enqueuedEvents
             \/ /\ wire' = wire
                /\ Len(enqueuedEvents') = Len(enqueuedEvents) + 1
                /\ Last(enqueuedEvents').type = "ERROR"
      ]_vars

\* C11: a chat request with an empty channel, taken from the send queue while
\* the worker has no joined channel, enqueues exactly one ERROR event, writes
\* no line to the wire, and leaves the socket, the stop flag and the worker's
\* place in the send loop as they are.
C11_NoChannelIsOneError ==
    [][(/\ RunDrain
        /\ ~IsEmpty(SendingQueue)
        /\ Head(SendingQueue).Type = "CHAT_MESSAGE"
        /\ IsEmpty(Head(SendingQueue).Channel)
        /\ IsEmpty(Channel))
          => /\ wire' = wire
             /\ enqueuedEvents' = Append(enqueuedEvents, NoChannelError)
             /\ ConnectionQueue' = Append(ConnectionQueue, NoChannelError)
             /\ SendingQueue' = Tail(SendingQueue)
             /\ UNCHANGED <<ConnectionSocket, socketState, ShouldExit, Channel>>
             /\ pc' = "drain"
      ]_vars

\* The worker answered such a request with the ERROR event and went on with
\* the connection up.
C11_Witness ==
    /\ pc = "recv"
    /\ socketState = "connected"
    /\ ConnectionSocket = "open"
    /\ ~ShouldExit
    /\ IsEmpty(Channel)
    /\ enqueuedEvents # <<>>
    /\ Last(enqueuedEvents) = NoChannelError
    /\ Cardinality(OfType(enqueuedEvents, "ERROR")) = 1

\* C12: a chat request with somewhere to go, taken from the send queue while
\* the connection is up, whose line the socket does not accept, is answered
\* with one ERROR event, and the socket and the stop flag stay as they are.
C12_SendFailureReported ==
    [][(/\ RunDrain
        /\ ~IsEmpty(SendingQueue)
        /\ Head(SendingQueue).Type = "CHAT_MESSAGE"
        /\ ~IsEmpty(ChatTarget(Head(SendingQueue)))
        /\ socketState = "connected"
        /\ wire' = wire)
          => /\ Len(enqueuedEvents') = Len(enqueuedEvents) + 1
             /\ Last(enqueuedEvents').type = "ERROR"
             /\ ConnectionQueue' = Append(ConnectionQueue, Last(enqueuedEvents'))
             /\ UNCHANGED <<ConnectionSocket, socketState, ShouldExit>>
      ]_vars

PartLine(channel) == IRCLine(<<"PART", " ", "#">> \o channel, <<>>)
JoinLine(channel) == IRCLine(<<"JOIN", " ", "#">> \o channel, <<>>)

\* C13: a join request for channel B taken from the send queue while the
\* connection is up appends to the wire "PART #A" (if a channel A is joined)
\* and then "JOIN #B" (if B is not empty), these lines and no others, and
\* afterwards the joined channel is B.
C13_PartThenJoin ==
    [][(/\ RunDrain
        /\ ~IsEmpty(SendingQueue)
        /\ Head(SendingQueue).Type = "JOIN_MESSAGE"
        /\ socketState = "connected")
          => /\ wire' = wire
                    \o (IF ~IsEmpty(Channel) THEN <<PartLine(Channel)>> ELSE <<>>)
                    \o (IF ~IsEmpty(Head(SendingQueue).Channel)
                        THEN <<JoinLine(Head(SendingQueue).Channel)>> ELSE <<>>)
             /\ Channel' = Head(SendingQueue).Channel
      ]_vars

\* C14: after Disconnect() was called twice or more on a receiver whose worker
\* then left its loop, neither the component nor the worker has failed, and
\* the consumer has been handed at most one DISCONNECTED event of that worker.
C14_DisconnectTwiceIsSafe ==
    (disconnects = "again" /\ OfType(enqueuedEvents, "DISCONNECTED") # {})
        => /\ ~crashed
           /\ Cardinality(OfType(OnConnectionMessage, "DISCONNECTED")) <= 1

StoppedGracefully == \E i \in 1..Len(enqueuedEvents) :
                         enqueuedEvents[i] = Event("DISCONNECTED", GracefulText)

\* C15: a worker that leaves its loop on a stop request with the socket still
\* connected writes no line but "PART #<joined channel>", enqueues the
\* DISCONNECTED event of the graceful exit with the socket still open, writes
\* nothing after it, and is the one that then closes the socket.
C15_PartReportClose ==
    /\ [][(RunExit /\ ConnectionSocket = "open" /\ socketState = "connected")
             => /\ wire' \in {wire} \cup
                             (IF ~IsEmpty(Channel) THEN {Append(wire, PartLine(Channel))} ELSE {})
                /\ enqueuedEvents' = Append(enqueuedEvents, Event("DISCONNECTED", GracefulText))
                /\ socketState' = "connected"
         ]_vars
    /\ [][StoppedGracefully => (wire' = wire \/ enqueuedEvents' = <<>>)]_vars
    /\ [][(StoppedGracefully /\ socketState # "closed" /\ socketState' = "closed")
             => RunClose]_vars

\* The events the component broadcasts itself, in Connect().
FacadeErrors == {Event("ERROR", <<"Already connected / connecting / pending!">>),
                 Event("ERROR", <<"Invalid connection parameters. Check your strings.">>)}
IsWorkerEvent(e) == e \notin FacadeErrors
Delivered == SelectSeq(OnConnectionMessage, IsWorkerEvent)

\* C16: the events handed to the consumer's connection callback, followed by
\* those still waiting in the connection queue, are exactly the events the
\* worker enqueued, in the order it enqueued them: none is lost, repeated or
\* overtaken, and a terminal event is the last event of its run.
C16_EventsInOrderOnce ==
    /\ Delivered \o ConnectionQueue = enqueuedEvents
    /\ \A i \in Terminals(enqueuedEvents) : i = Len(enqueuedEvents)

\* Some events were delivered by an earlier poll and the worker has enqueued
\* two more since.
C16_Witness ==
    /\ Len(Delivered) >= 1
    /\ Len(ConnectionQueue) >= 2
    /\ ConnectionQueue[1] # ConnectionQueue[2]
    /\ WorkerRunning

\* A chat line as the server writes it,
\* ":<nick>!<nick>@<nick>.tmi.twitch.tv PRIVMSG #<channel> :<text>",
\* its sender and its text.
IsChatForm(line) ==
    /\ Len(line) >= 13
    /\ line[1] = ":" /\ line[3] = "!" /\ line[5] = "@" /\ line[7] = " "
    /\ line[8] = "PRIVMSG" /\ line[9] = " " /\ line[11] = " " /\ line[12] = ":"
ChatSender(line) == <<line[2]>>
ChatText(line) == SubSeq(line, 13, Len(line))
ChatLines(chunk) == SelectSeq(ParseIntoArrayLines(chunk), IsChatForm)

\* C17: the chat lines of every read are queued in the order of the lines,
\* each text with the sender of its own line; every poll hands the consumer
\* the queued messages in that order, each with that sender; and the two
\* lists a poll drains always have the same length.
C17_ChatInOrderPaired ==
    /\ [][(RunReceive /\ ~IsEmpty(pending))
             => LET chats == ChatLines(pending)
                IN  /\ PulledMessages(ReceivingQueue') = PulledMessages(ReceivingQueue)
                           \o [i \in 1..Len(chats) |-> ChatText(chats[i])]
                    /\ PulledUsernames(ReceivingQueue') = PulledUsernames(ReceivingQueue)
                           \o [i \in 1..Len(chats) |-> ChatSender(chats[i])]
         ]_vars
    /\ [][TickPullMessages
             => LET messages == PulledMessages(ReceivingQueue)
                    usernames == PulledUsernames(ReceivingQueue)
                IN  /\ OnMessageReceived' = OnMessageReceived
                           \o [i \in 1..Len(messages) |-> <<messages[i], usernames[i]>>]
                    /\ ~crashed'
         ]_vars
    /\ [](Len(PulledUsernames(ReceivingQueue)) = Len(PulledMessages(ReceivingQueue)))

\* The consumer was handed the message of one read and then the two messages,
\* from two senders, of a later read.
C17_Witness ==
    /\ Len(OnMessageReceived) = 3
    /\ OnMessageReceived[1] = <<<<"a", ":", "b">>, <<"foo">>>>
    /\ OnMessageReceived[2] = <<<<"a", ":", "b">>, <<"foo">>>>
    /\ OnMessageReceived[3] = <<<<"yo">>, <<"bar">>>>

NonPingLines(chunk) ==
    LET lines == ParseIntoArrayLines(chunk)
    IN  {i \in 1..Len(lines) : lines[i] # PingLine}

\* C18: a read of the steady state yields as many outputs, chat messages
\* queued plus events enqueued, as it has non-empty lines other than the
\* keep-alive line; the events are MESSAGE events; and the read leaves the
\* socket and the stop flag as they are and the worker in its loop.
C18_EveryLineOneOutput ==
    [][(RunReceive /\ ~IsEmpty(pending))
          => /\ (Len(enqueuedEvents') - Len(enqueuedEvents))
                  + (Len(PulledMessages(ReceivingQueue')) - Len(PulledMessages(ReceivingQueue)))
                = Cardinality(NonPingLines(pending))
             /\ Len(enqueuedEvents') >= Len(enqueuedEvents)
             /\ Len(PulledMessages(ReceivingQueue')) >= Len(PulledMessages(ReceivingQueue))
             /\ SubSeq(enqueuedEvents', 1, Len(enqueuedEvents)) = enqueuedEvents
             /\ \A i \in (Len(enqueuedEvents) + 1)..Len(enqueuedEvents') :
                    enqueuedEvents'[i].type = "MESSAGE"
             /\ UNCHANGED <<ConnectionSocket, socketState, ShouldExit>>
             /\ pc' = "drain"
      ]_vars

\* The worker is in its loop with the connection up after a read of four
\* lines that are no chat and two that are.
C18_Witness ==
    /\ pc = "loop"
    /\ socketState = "connected"
    /\ ConnectionSocket = "open"
    /\ ~ShouldExit
    /\ Cardinality(OfType(enqueuedEvents, "MESSAGE")) = 4
    /\ Len(PulledMessages(ReceivingQueue)) = 2

\* C19: a read that is one chat line
\* ":<nick>!<nick>@<nick>.tmi.twitch.tv PRIVMSG #<channel> :<text>" queues one
\* message whose sender is <nick> and whose text is <text>, atom for atom,
\* wherever the text has its ":".
C19_ChatTextPreserved ==
    [][(RunReceive /\ ~IsEmpty(pending) /\ Len(ChatLines(pending)) = 1
                   /\ Len(ParseIntoArrayLines(pending)) = 1)
          => LET line == ChatLines(pending)[1]
             IN  ReceivingQueue' = Append(ReceivingQueue,
                                          [Usernames |-> <<ChatSender(line)>>,
                                           Messages |-> <<ChatText(line)>>])
      ]_vars

\* C20: no step of the game thread (Connect, SendChatMessage, JoinChannel,
\* Disconnect, EndPlay, TickComponent and the destruction of the receiver in
\* it) changes the state of the socket while the worker thread is still
\* inside Run().
C20_OnlyWorkerTouchesSocket ==
    [][(GameStep /\ WorkerRunning) => socketState' = socketState]_vars

\* C21: GetConnectionInfo() never copies the worker's Channel while the
\* worker's next step assigns it.
C21_InfoNeverRacesWorker ==
    [][GetConnectionInfo => ~ChannelWritePending]_vars

\* C22: while a receiver lives, the send queue grows only by a step of the
\* game thread and shrinks only by the worker taking its head; the chat queue
\* and the connection queue grow only by a step of the worker, at their end,
\* and shrink only by a step of the game thread.
C22_OneWriterOneReader ==
    [][(TwitchMessageReceiver /\ TwitchMessageReceiver')
          => /\ (SendingQueue' # SendingQueue) =>
                    IF Len(SendingQueue') > Len(SendingQueue)
                    THEN GameStep /\ SubSeq(SendingQueue', 1, Len(SendingQueue)) = SendingQueue
                    ELSE WorkerStep /\ SendingQueue' = Tail(SendingQueue)
             /\ (ReceivingQueue' # ReceivingQueue) =>
                    IF Len(ReceivingQueue') > Len(ReceivingQueue)
                    THEN /\ WorkerStep
                         /\ SubSeq(ReceivingQueue', 1, Len(ReceivingQueue)) = ReceivingQueue
                    ELSE GameStep
             /\ (ConnectionQueue' # ConnectionQueue) =>
                    IF Len(ConnectionQueue') > Len(ConnectionQueue)
                    THEN /\ WorkerStep
                         /\ SubSeq(ConnectionQueue', 1, Len(ConnectionQueue)) = ConnectionQueue
                    ELSE GameStep
      ]_vars

\* A receiver all of whose queues hold something, after the worker took a
\* request from the game thread and the game thread took events and chat
\* messages from the worker.
C22_Witness ==
    /\ TwitchMessageReceiver
    /\ WorkerRunning
    /\ ReceivingQueue # <<>>
    /\ ConnectionQueue # <<>>
    /\ OnConnectionMessage # <<>>
    /\ \E i \in 1..Len(wire) : LineIs(wire[i], "PRIVMSG")

PassLine(oauth) == IRCLine(<<"PASS", " ">> \o oauth, <<>>)
NickLine(username) == IRCLine(<<"NICK", " ">> \o username, <<>>)
NotYetConnected == OfType(enqueuedEvents, "CONNECTED") = {}

\* C23: on a run that did not fail to connect, the wire begins with
\* "PASS <token>" and "NICK <username>"; until the CONNECTED event is enqueued
\* the wire holds no other line; and until then the worker takes nothing from
\* the send queue.
C23_HandshakeFirst ==
    /\ []((wire # <<>> /\ OfType(enqueuedEvents, "FAILED_TO_CONNECT") = {})
             => /\ Len(wire) >= 2
                /\ wire[1] = PassLine(<<"tok">>)
                /\ wire[2] = NickLine(<<"bot">>))
    /\ [](NotYetConnected
             => \A i \in 1..Len(wire) : LineIs(wire[i], "PASS") \/ LineIs(wire[i], "NICK"))
    /\ [][(NotYetConnected /\ TwitchMessageReceiver /\ TwitchMessageReceiver')
             => /\ Len(SendingQueue') >= Len(SendingQueue)
                /\ SubSeq(SendingQueue', 1, Len(SendingQueue)) = SendingQueue
         ]_vars

\* The worker has just enqueued CONNECTED; two requests queued before that
\* wait in the send queue, and PASS and NICK are all that was written.
C23_Witness ==
    /\ pc = "join"
    /\ Len(SendingQueue) = 2
    /\ wire = <<PassLine(<<"tok">>), NickLine(<<"bot">>)>>
    /\ Cardinality(OfType(enqueuedEvents, "CONNECTED")) = 1

ChatLine(target, text) == <<"PRIVMSG", " ", "#">> \o target \o <<" ", ":">> \o text \o <<"\n">>

\* C24: the worker's step on a chat request leaves its joined channel as it
\* is and writes nothing but "PRIVMSG #<target> :<text>", where <target> is
\* the request's own channel when it has one, whatever the joined channel is,
\* and the joined channel when it has none; with no channel at all, or when
\* the socket does not take the line, the step writes nothing.
C24_ChatRoutedChannelKept ==
    [][(RunDrain /\ ~IsEmpty(SendingQueue) /\ Head(SendingQueue).Type = "CHAT_MESSAGE")
          => LET request == Head(SendingQueue)
                 target == IF request.Channel # <<>> THEN request.Channel ELSE Channel
             IN  /\ Channel' = Channel
                 /\ \/ wire' = wire
                    \/ target # <<>> /\ wire' = Append(wire, ChatLine(target, request.Message))
      ]_vars

\* The worker, joined to #cha, has written one chat line to #chb, the target
\* of its request, and one to #cha for a request without a target.
C24_Witness ==
    /\ Channel = <<"cha">>
    /\ pc = "drain"
    /\ \E i, j \in 1..Len(wire) :
           /\ wire[i] = ChatLine(<<"chb">>, <<"hi">>)
           /\ wire[j] = ChatLine(<<"cha">>, <<"hi">>)

\* C25: the poll that hands a terminal event to the consumer also hands over
\* every chat message that is in the chat queue at that moment, in order;
\* none is lost with the receiver.
C25_QueuedChatSurvivesTeardown ==
    [][(/\ TickComponent
        /\ TwitchMessageReceiver
        /\ \E i \in 1..Len(ConnectionQueue) : IsTerminal(ConnectionQueue[i]))
          => LET usernames == PulledUsernames(ReceivingQueue)
                 messages == PulledMessages(ReceivingQueue)
             IN  OnMessageReceived' = OnMessageReceived \o
                     [i \in 1..Len(messages) |-> <<messages[i], usernames[i]>>]
      ]_vars

\* Where a delimiter occurs in a message, from 1: as the same characters, and
\* as the same characters but for the case of letters.
ExactlyAt(message, delimiter) ==
    {i \in 1..(Len(message) - Len(delimiter) + 1) :
         SubSeq(message, i, i + Len(delimiter) - 1) = delimiter}
IgnoringCaseAt(message, delimiter) ==
    {i \in 1..(Len(message) - Len(delimiter) + 1) :
         EqualsIgnoreCase(SubSeq(message, i, i + Len(delimiter) - 1), delimiter)}

\* What stands between the first two of the occurrences, which are width
\* long; nothing when there are not two.
Between(message, occurrences, width) ==
    LET after(i) == {j \in occurrences : j >= i + width}
        first == CHOOSE i \in occurrences : \A j \in occurrences : i <= j
        second == CHOOSE i \in after(first) : \A j \in after(first) : i <= j
    IN  IF occurrences = {} THEN <<>>
        ELSE IF after(first) = {} THEN <<>>
        ELSE SubSeq(message, first + width, second - 1)

\* C26: the poll of one chat message calls at most one delegate; it calls
\* one exactly when what stands between the first two occurrences of the
\* command delimiter is not empty and is, but for the case of letters, the
\* name of a registered command whose delegate is bound, and then it calls
\* that delegate with the command as the message spells it; the occurrences
\* of the delimiter are found without regard to case too.  After
\* RegisterCommand the name has the one delegate just given, no two entries
\* have the same name, and after UnregisterCommand the name has no entry.
C26_OneBoundHandlerPerCommand ==
    [][/\ (TickPullMessages /\ Len(PulledMessages(ReceivingQueue)) = 1)
            => LET message == PulledMessages(ReceivingQueue)[1]
                   command == Between(message,
                                      IgnoringCaseAt(message, command_encapsulation_char_),
                                      Len(command_encapsulation_char_))
                   handlers == {entry \in bound_events_ :
                                    /\ EqualsIgnoreCase(entry.name, command)
                                    /\ entry.delegate # "unbound"}
               IN  /\ Len(executed') <= 1
                   /\ (Len(executed') = 1) <=> (command # <<>> /\ handlers # {})
                   /\ (Len(executed') = 1)
                          => /\ executed'[1].command = command
                             /\ \E entry \in handlers :
                                    executed'[1].delegate = entry.delegate
       /\ \A command_name \in CommandNames \ {<<>>} :
              /\ \A callback_function \in Delegates :
                     RegisterCommand(command_name, callback_function)
                         => {entry.delegate : entry \in
                                 {e \in bound_events_' : EqualsIgnoreCase(e.name, command_name)}}
                                = {callback_function}
              /\ UnregisterCommand(command_name)
                     => \A entry \in bound_events_' :
                            ~EqualsIgnoreCase(entry.name, command_name)
       /\ \A e1, e2 \in bound_events_' : EqualsIgnoreCase(e1.name, e2.name) => e1 = e2
      ]_vars

\* C26 as stated: the poll of one chat message calls at most one delegate,
\* and calls one exactly when what stands between the first two occurrences
\* of the command delimiter is not empty and is the name of a registered
\* command; after RegisterCommand the name has the one delegate just given,
\* no two entries have the same name, and after UnregisterCommand the name
\* has no entry.
C26_OneHandlerPerEqualName ==
    [][/\ (TickPullMessages /\ Len(PulledMessages(ReceivingQueue)) = 1)
            => LET message == PulledMessages(ReceivingQueue)[1]
                   command == Between(message,
                                      ExactlyAt(message, command_encapsulation_char_),
                                      Len(command_encapsulation_char_))
                   handlers == {entry \in bound_events_ : entry.name = command}
               IN  /\ Len(executed') <= 1
                   /\ (Len(executed') = 1) <=> (command # <<>> /\ handlers # {})
       /\ \A command_name \in CommandNames \ {<<>>} :
              /\ \A callback_function \in Delegates :
                     RegisterCommand(command_name, callback_function)
                         => {entry.delegate : entry \in
                                 {e \in bound_events_' : e.name = command_name}}
                                = {callback_function}
              /\ UnregisterCommand(command_name)
                     => \A entry \in bound_events_' : entry.name # command_name
       /\ \A e1, e2 \in bound_events_' : e1.name = e2.name => e1 = e2
      ]_vars

\* The poll of "!A!#!" has called the delegate registered for "a", and not
\* the one registered for "#", the command that comes later in the message.
C26_Witness ==
    /\ OnMessageReceived = <<<<(<<"!", "A", "!", "#", "!">>), (<<"foo">>)>>>>
    /\ command_encapsulation_char_ = <<"!">>
    /\ bound_events_ = {[name |-> <<"a">>, delegate |-> "OnFire"],
                        [name |-> <<"#">>, delegate |-> "OnJump"]}
    /\ Len(executed) = 1
    /\ executed[1].delegate = "OnFire"
    /\ executed[1].command = <<"A">>
    /\ executed[1].username = <<"foo">>

====
